---- MODULE Spec2Model ----
(***************************************************************************)
(* Scratch-slot allocation, scratch load/store nodes and the Break node of *)
(* pyteal (pyteal/ast/scratch.py, pyteal/ast/break_.py), with the lowering *)
(* helper TealBlock.FromOp and the loop node's enter/drain protocol that   *)
(* the nodes are lowered under.                                            *)
(*                                                                         *)
(* Objects live in heaps (sequences); a reference is the 1-based index of  *)
(* the object, 0 is Python's None.  Object identity is the index.          *)
(***************************************************************************)
EXTENDS Integers, Sequences, FiniteSets

\* ------------------------------------------------------------------ bounds
MaxSlots == 3
MaxNodes == 3
MaxBlocks == 5
MaxLoopDepth == 2
MaxSpecSlots == 1
MaxSpecBlocks == 3
MaxSpecLoops == 1

\* --------------------------------------------------------------- constants
\* pyteal.config.NUM_SLOTS, imported by scratch.py ("Slot ids under 256 are
\* manually reserved slots")
NUM_SLOTS == 256

\* Python's None for references, and a reference to an object that is not a
\* ScratchSlot (what isinstance(self.slot, ScratchSlot) rejects)
None == 0
NotASlot == -1

\* requestedSlotId values tried: <<>> is None, <<r>> is the int r
RequestedIds ==
    {<<>>, <<-1>>, <<0>>, <<1>>, <<NUM_SLOTS - 1>>, <<NUM_SLOTS>>}

VARIABLES
    nextSlotId,   \* ScratchSlot.nextSlotId, the class-level counter
    slots,        \* ScratchSlot objects in creation order: [id, isReservedSlot]
    nodes,        \* Expr objects: [kind, slot, index_expression, value]
    blocks,       \* TealSimpleBlock objects: [ops, nextBlock]
    currentLoop,  \* options.currentLoop: None or the active loop's marker
    breakBlocks,  \* options.breakBlocks: list of block references
    loopStack,    \* the enclosing loops' saved (currentLoop, breakBlocks)
    loopCount,    \* loop markers handed out so far
    breakLog,     \* history: <<block, options.currentLoop>> at each registration
    exitLog,      \* history: <<loop marker, exit block>> at each drain
    last          \* the last operation and how it ended

vars == <<nextSlotId, slots, nodes, blocks, currentLoop, breakBlocks,
          loopStack, loopCount, breakLog, exitLog, last>>

NoError == "ok"

\* the record describing one finished operation
Outcome(op, err, arg, start, end) ==
    [op |-> op, err |-> err, arg |-> arg, start |-> start, end |-> end]

Init ==
    /\ nextSlotId = NUM_SLOTS
    /\ slots = <<>>
    /\ nodes = <<>>
    /\ blocks = <<>>
    /\ currentLoop = None
    /\ breakBlocks = <<>>
    /\ loopStack = <<>>
    /\ loopCount = 0
    /\ breakLog = <<>>
    /\ exitLog = <<>>
    /\ last = Outcome("init", NoError, <<>>, None, None)

\* ------------------------------------------------------------ ScratchSlot

\* mutant: the counter is left where it was
SlotInitCounter_NoIncrement(requestedSlotId) == nextSlotId

\* mutant: the counter advances for reserved slots too
SlotInitCounter_AlwaysIncrement(requestedSlotId) == nextSlotId + 1

\* ScratchSlot.__init__: the counter after the call
SlotInitCounter(requestedSlotId) ==
    IF requestedSlotId = <<>> THEN nextSlotId + 1 ELSE nextSlotId

\* mutant: the upper end of the range test is off by one
SlotInitError_OffByOne(requestedSlotId) ==
    IF requestedSlotId = <<>> THEN NoError
    ELSE IF requestedSlotId[1] < 0 \/ requestedSlotId[1] > NUM_SLOTS
         THEN "TealInputError"
         ELSE NoError

\* ScratchSlot.__init__: the error raised, if any
SlotInitError(requestedSlotId) ==
    IF requestedSlotId = <<>> THEN NoError
    ELSE IF requestedSlotId[1] < 0 \/ requestedSlotId[1] >= NUM_SLOTS
         THEN "TealInputError"
         ELSE NoError

\* mutant: the counter is advanced before its value is taken
SlotInitFields_PreIncrement(requestedSlotId) ==
    IF requestedSlotId = <<>>
    THEN [id |-> nextSlotId + 1, isReservedSlot |-> FALSE]
    ELSE [id |-> requestedSlotId[1], isReservedSlot |-> TRUE]

\* ScratchSlot.__init__: the fields of the new object
SlotInitFields(requestedSlotId) ==
    IF requestedSlotId = <<>>
    THEN [id |-> nextSlotId, isReservedSlot |-> FALSE]
    ELSE [id |-> requestedSlotId[1], isReservedSlot |-> TRUE]

ScratchSlotInit(requestedSlotId) ==
    /\ Len(slots) < MaxSlots
    /\ LET err == SlotInitError(requestedSlotId) IN
       /\ slots' = IF err = NoError
                   THEN Append(slots, SlotInitFields(requestedSlotId))
                   ELSE slots
       /\ nextSlotId' = IF err = NoError
                        THEN SlotInitCounter(requestedSlotId)
                        ELSE nextSlotId
       /\ last' = Outcome("ScratchSlot", err, requestedSlotId,
                          IF err = NoError THEN Len(slots) + 1 ELSE None, None)
    /\ UNCHANGED <<nodes, blocks, currentLoop, breakBlocks, loopStack,
                   loopCount, breakLog, exitLog>>

\* ScratchSlot has __hash__ and no __eq__: == is object identity
SlotEq(a, b) == a = b

\* mutant: the default object hash, by identity
SlotHash_Identity(a) == a

\* ScratchSlot.__hash__: hash(self.id); hash of a non-negative int below
\* 2^61 - 1 is the int
SlotHash(a) == slots[a].id

\* ------------------------------------------------------- node constructors

SlotArgs == {None, NotASlot} \cup (1..Len(slots))
ExprArgs == {None} \cup (1..Len(nodes))

\* the slot handed over by ScratchSlot.index() and ScratchSlot.store()
SlotRefs == 1..Len(slots)

Node(kind, slot, index_expression, value) ==
    [kind |-> kind, slot |-> slot,
     index_expression |-> index_expression, value |-> value]

\* mutant: only the absence of both is rejected
AddressingError_OnlyNeither(slot, index_expression) ==
    IF slot = None /\ index_expression = None
    THEN "TealInternalError"
    ELSE NoError

\* ScratchLoad.__init__ / ScratchStore.__init__: the exclusivity test
AddressingError(slot, index_expression) ==
    IF (slot = None) = (index_expression = None)
    THEN "TealInternalError"
    ELSE NoError

\* every constructor: the object is added unless the constructor raised
Construct(op, err, node) ==
    /\ Len(nodes) < MaxNodes
    /\ nodes' = IF err = NoError THEN Append(nodes, node) ELSE nodes
    /\ last' = Outcome(op, err, <<node.slot, node.index_expression>>,
                       IF err = NoError THEN Len(nodes) + 1 ELSE None, None)
    /\ UNCHANGED <<nextSlotId, slots, blocks, currentLoop, breakBlocks,
                   loopStack, loopCount, breakLog, exitLog>>

BreakInit ==
    Construct("Break", NoError, Node("Break", None, None, None))

ScratchIndexInit(slot) ==
    Construct("ScratchIndex", NoError, Node("ScratchIndex", slot, None, None))

ScratchLoadInit(slot, index_expression) ==
    Construct("ScratchLoad", AddressingError(slot, index_expression),
              Node("ScratchLoad", slot, index_expression, None))

ScratchStoreInit(slot, value, index_expression) ==
    Construct("ScratchStore", AddressingError(slot, index_expression),
              Node("ScratchStore", slot, index_expression, value))

ScratchStackStoreInit(slot) ==
    Construct("ScratchStackStore", NoError,
              Node("ScratchStackStore", slot, None, None))

\* ---------------------------------------------------------------- lowering
\* A lowering threads the mutable state it touches: the block heap, the
\* context's break-block list (and its history), the error raised so far and
\* the (start, end) pair returned.

LowerState(bs, brk, log) ==
    [blocks |-> bs, breakBlocks |-> brk, breakLog |-> log,
     err |-> NoError, start |-> None, end |-> None]

Raise(st, err) == [st EXCEPT !.err = err, !.start = None, !.end = None]

\* TealSimpleBlock(ops): a new block with no successor
NewBlock(st, ops) ==
    [st EXCEPT !.blocks = Append(@, [ops |-> ops, nextBlock |-> None])]

\* TealSimpleBlock.setNextBlock
SetNextBlock(bs, b, target) == [bs EXCEPT ![b].nextBlock = target]

\* TealOp(expr, op, *args)
TealOp(expr, op, args) == [expr |-> expr, op |-> op, args |-> args]

IsScratchSlot(ref) == ref \in 1..Len(slots)

RECURSIVE Teal(_, _)
RECURSIVE FromOpArgs(_, _, _, _, _)

\* the loop of TealBlock.FromOp over its operand expressions, from operand i
FromOpArgs(st, args, i, start, prevArgEnd) ==
    IF i > Len(args)
    THEN [st EXCEPT !.start = start, !.end = prevArgEnd]
    ELSE LET s1 == Teal(args[i], st) IN
         IF s1.err # NoError THEN s1
         ELSE LET bs == IF i = 1 THEN s1.blocks
                        ELSE SetNextBlock(s1.blocks, prevArgEnd, s1.start)
              IN FromOpArgs([s1 EXCEPT !.blocks = bs], args, i + 1,
                            IF i = 1 THEN s1.start ELSE start, s1.end)

\* TealBlock.FromOp(options, op, *args)
FromOp(st, op, args) ==
    LET s1 == NewBlock(st, <<op>>)
        opBlock == Len(s1.blocks)
    IN IF args = <<>>
       THEN [s1 EXCEPT !.start = opBlock, !.end = opBlock]
       ELSE LET s2 == FromOpArgs(s1, args, 1, None, None) IN
            IF s2.err # NoError THEN s2
            ELSE [s2 EXCEPT !.blocks = SetNextBlock(@, s2.end, opBlock),
                            !.end = opBlock]

\* mutant: the test for an active loop is missing
BreakTeal_NoLoopCheck(n, st) ==
    LET s1 == NewBlock(st, <<>>)
        start == Len(s1.blocks)
    IN [s1 EXCEPT !.breakBlocks = Append(@, start),
                  !.breakLog = Append(@, <<start, currentLoop>>),
                  !.start = start, !.end = start]

\* mutant: the block returned is not the block registered
BreakTeal_ReturnsOther(n, st) ==
    IF currentLoop = None
    THEN Raise(st, "TealCompileError")
    ELSE LET s1 == NewBlock(NewBlock(st, <<>>), <<>>)
             start == Len(s1.blocks)
         IN [s1 EXCEPT !.breakBlocks = Append(@, start - 1),
                       !.breakLog = Append(@, <<start - 1, currentLoop>>),
                       !.start = start, !.end = start]

\* mutant: the block is created and returned but never registered
BreakTeal_NotRegistered(n, st) ==
    IF currentLoop = None
    THEN Raise(st, "TealCompileError")
    ELSE LET s1 == NewBlock(st, <<>>)
             start == Len(s1.blocks)
         IN [s1 EXCEPT !.breakLog = Append(@, <<start, currentLoop>>),
                       !.start = start, !.end = start]

\* Break.__teal__
BreakTeal(n, st) ==
    IF currentLoop = None
    THEN Raise(st, "TealCompileError")
    ELSE LET s1 == NewBlock(st, <<>>)
             start == Len(s1.blocks)
         IN [s1 EXCEPT !.breakBlocks = Append(@, start),
                       !.breakLog = Append(@, <<start, currentLoop>>),
                       !.start = start, !.end = start]

\* ScratchIndex.__teal__
ScratchIndexTeal(n, st) ==
    FromOp(st, TealOp(n, "int", <<nodes[n].slot>>), <<>>)

\* ScratchLoad.__teal__
ScratchLoadTeal(n, st) ==
    IF nodes[n].index_expression # None
    THEN FromOp(st, TealOp(n, "loads", <<>>), <<nodes[n].index_expression>>)
    ELSE IF ~IsScratchSlot(nodes[n].slot)
         THEN Raise(st, "TealInternalError")
         ELSE FromOp(st, TealOp(n, "load", <<nodes[n].slot>>), <<>>)

\* mutant: the operands of the indexed store are passed value first
ScratchStoreTeal_ValueFirst(n, st) ==
    IF nodes[n].index_expression # None
    THEN FromOp(st, TealOp(n, "stores", <<>>),
                <<nodes[n].value, nodes[n].index_expression>>)
    ELSE IF ~IsScratchSlot(nodes[n].slot)
         THEN Raise(st, "TealInternalError")
         ELSE FromOp(st, TealOp(n, "store", <<nodes[n].slot>>),
                     <<nodes[n].value>>)

\* ScratchStore.__teal__
ScratchStoreTeal(n, st) ==
    IF nodes[n].index_expression # None
    THEN FromOp(st, TealOp(n, "stores", <<>>),
                <<nodes[n].index_expression, nodes[n].value>>)
    ELSE IF ~IsScratchSlot(nodes[n].slot)
         THEN Raise(st, "TealInternalError")
         ELSE FromOp(st, TealOp(n, "store", <<nodes[n].slot>>),
                     <<nodes[n].value>>)

\* ScratchStackStore.__teal__
ScratchStackStoreTeal(n, st) ==
    FromOp(st, TealOp(n, "store", <<nodes[n].slot>>), <<>>)

\* expr.__teal__(options), dispatched on the node's class
Teal(n, st) ==
    CASE nodes[n].kind = "Break" -> BreakTeal(n, st)
      [] nodes[n].kind = "ScratchIndex" -> ScratchIndexTeal(n, st)
      [] nodes[n].kind = "ScratchLoad" -> ScratchLoadTeal(n, st)
      [] nodes[n].kind = "ScratchStore" -> ScratchStoreTeal(n, st)
      [] nodes[n].kind = "ScratchStackStore" -> ScratchStackStoreTeal(n, st)

\* one top-level call n.__teal__(options); what it did before raising stays
Lower(n) ==
    LET r == Teal(n, LowerState(blocks, breakBlocks, breakLog)) IN
    /\ Len(r.blocks) <= MaxBlocks
    /\ blocks' = r.blocks
    /\ breakBlocks' = r.breakBlocks
    /\ breakLog' = r.breakLog
    /\ last' = Outcome("lower", r.err, <<n>>, r.start, r.end)
    /\ UNCHANGED <<nextSlotId, slots, nodes, currentLoop, loopStack,
                   loopCount, exitLog>>

\* -------------------------------------------------------- the loop protocol

\* the loop node starts lowering its body: a new marker becomes the current
\* loop and the context's break-block collection starts empty
EnterLoop ==
    /\ Len(loopStack) < MaxLoopDepth
    /\ loopCount' = loopCount + 1
    /\ loopStack' = Append(loopStack,
                           [currentLoop |-> currentLoop,
                            breakBlocks |-> breakBlocks])
    /\ currentLoop' = loopCount + 1
    /\ breakBlocks' = <<>>
    /\ last' = Outcome("enterLoop", NoError, <<loopCount + 1>>, None, None)
    /\ UNCHANGED <<nextSlotId, slots, nodes, blocks, breakLog, exitLog>>

\* wiring every block of the list brk to the block exit
RECURSIVE Drain(_, _, _)
Drain(bs, brk, exit) ==
    IF brk = <<>> THEN bs
    ELSE Drain(SetNextBlock(bs, Head(brk), exit), Tail(brk), exit)

\* the loop node finishes: its exit block exists, the break blocks
\* registered during its body are wired to it, and the enclosing loop's
\* marker and registrations come back
ExitLoop ==
    /\ loopStack # <<>>
    /\ Len(blocks) < MaxBlocks
    /\ LET exit == Len(blocks) + 1
           top == loopStack[Len(loopStack)]
       IN /\ blocks' = Drain(Append(blocks, [ops |-> <<>>, nextBlock |-> None]),
                             breakBlocks, exit)
          /\ exitLog' = Append(exitLog, <<currentLoop, exit>>)
          /\ currentLoop' = top.currentLoop
          /\ breakBlocks' = top.breakBlocks
          /\ last' = Outcome("exitLoop", NoError, <<currentLoop>>, None, exit)
    /\ loopStack' = SubSeq(loopStack, 1, Len(loopStack) - 1)
    /\ UNCHANGED <<nextSlotId, slots, nodes, loopCount, breakLog>>

\* allocation alone
NextAlloc ==
    \E r \in RequestedIds : ScratchSlotInit(r)

SpecAlloc == Init /\ [][NextAlloc]_vars

\* Break nodes lowered under the loop protocol
NextLoop ==
    \/ BreakInit
    \/ \E n \in 1..Len(nodes) : Lower(n)
    \/ EnterLoop
    \/ ExitLoop

SpecLoop == Init /\ [][NextLoop]_vars

\* slots, the node constructors and lowering outside any loop
NextNodes ==
    \/ \E r \in RequestedIds : Len(slots) < MaxSpecSlots /\ ScratchSlotInit(r)
    \/ BreakInit
    \/ \E s \in SlotRefs : ScratchIndexInit(s)
    \/ \E s \in SlotArgs, i \in ExprArgs : ScratchLoadInit(s, i)
    \/ \E s \in SlotArgs, v \in 1..Len(nodes), i \in ExprArgs :
          ScratchStoreInit(s, v, i)
    \/ \E s \in SlotRefs : ScratchStackStoreInit(s)
    \/ \E n \in 1..Len(nodes) : Lower(n) /\ Len(blocks') <= MaxSpecBlocks

SpecNodes == Init /\ [][NextNodes]_vars

\* every operation
Next ==
    \/ NextNodes
    \/ Len(loopStack) < MaxSpecLoops /\ EnterLoop
    \/ ExitLoop /\ Len(blocks') <= MaxSpecBlocks

Spec == Init /\ [][Next]_vars

\* ------------------------------------------------------------------ claims

ReservedRefs == {i \in 1..Len(slots) : slots[i].isReservedSlot}
AutoRefs == {i \in 1..Len(slots) : ~slots[i].isReservedSlot}

\* C1: the ids of reserved slots and the ids of auto-assigned slots are
\* disjoint, and the ids of auto-assigned slots strictly increase in
\* allocation order, after any sequence of allocations.
C1_SlotIdDisjointness ==
    /\ {slots[i].id : i \in ReservedRefs} \cap {slots[i].id : i \in AutoRefs} = {}
    /\ \A i, j \in AutoRefs : i < j => slots[i].id < slots[j].id

\* a reserved slot and two auto-assigned ones exist
C1_Witness ==
    /\ ReservedRefs # {}
    /\ Cardinality(AutoRefs) >= 2

\* C2: an allocation with requested id r raises TealInputError exactly when
\* r < 0 or r >= NUM_SLOTS; otherwise it succeeds and the new slot has id r
\* and is marked reserved.
C2_ReservedRange ==
    (last.op = "ScratchSlot" /\ last.arg # <<>>) =>
        LET r == last.arg[1] IN
        /\ (last.err = "TealInputError") <=> (r < 0 \/ r >= NUM_SLOTS)
        /\ (0 <= r /\ r < NUM_SLOTS) =>
              /\ last.err = NoError
              /\ last.start = Len(slots)
              /\ slots[last.start] = [id |-> r, isReservedSlot |-> TRUE]

\* the allocation of NUM_SLOTS - 1 has just succeeded
C2_Witness ==
    /\ last.op = "ScratchSlot"
    /\ last.arg = <<NUM_SLOTS - 1>>
    /\ last.err = NoError
    /\ slots[Len(slots)].isReservedSlot

\* C7 as stated: two slots are equal exactly when their ids are equal.
C7_EqualExactlyWhenSameId ==
    \A a, b \in 1..Len(slots) : SlotEq(a, b) <=> (slots[a].id = slots[b].id)

\* C7, amended: two slots hash equally exactly when their ids are equal and
\* equal slots hash equally; equality is object identity, so two separately
\* created slots are not equal even when their ids are.
C7_HashByIdEqualityByIdentity ==
    \A a, b \in 1..Len(slots) :
        /\ (SlotHash(a) = SlotHash(b)) <=> (slots[a].id = slots[b].id)
        /\ SlotEq(a, b) => SlotHash(a) = SlotHash(b)
        /\ a # b => ~SlotEq(a, b)

\* two separately created reserved slots with the same id
C7_Witness ==
    \E a, b \in ReservedRefs : a # b /\ slots[a].id = slots[b].id

\* a step that lowered a Break node
BreakLowered ==
    /\ vars' # vars
    /\ last'.op = "lower"
    /\ nodes[last'.arg[1]].kind = "Break"

\* C3: lowering a Break node while no loop is active raises
\* TealCompileError, whatever else the context holds.
C3_BreakOutsideLoop ==
    (/\ last.op = "lower"
     /\ nodes[last.arg[1]].kind = "Break"
     /\ currentLoop = None) => last.err = "TealCompileError"

\* a Break was lowered outside any loop after an earlier loop had left
\* blocks behind
C3_Witness ==
    /\ last.op = "lower"
    /\ nodes[last.arg[1]].kind = "Break"
    /\ currentLoop = None
    /\ last.err = "TealCompileError"
    /\ exitLog # <<>>
    /\ breakLog # <<>>

\* the blocks the break-block collection brk refers to
BreakBlockSet(brk) == {brk[k] : k \in 1..Len(brk)}

\* C4: each lowering of a Break node while a loop is active creates a fresh
\* block with no instructions, appends exactly that block to the end of the
\* break-block collection and returns it as both entry and exit; the drain
\* gives every block of the collection an edge to the exit block and leaves
\* it without instructions, so a body of two Breaks yields two distinct
\* empty blocks wired to the exit.
C4_BreakRegistersFreshBlock ==
    [][/\ (BreakLowered /\ currentLoop # None) =>
            /\ last'.err = NoError
            /\ last'.start = Len(blocks) + 1
            /\ last'.end = last'.start
            /\ blocks' = Append(blocks, [ops |-> <<>>, nextBlock |-> None])
            /\ breakBlocks' = Append(breakBlocks, last'.start)
       /\ (vars' # vars /\ last'.op = "exitLoop") =>
            /\ Cardinality(BreakBlockSet(breakBlocks)) = Len(breakBlocks)
            /\ \A b \in BreakBlockSet(breakBlocks) :
                  blocks'[b] = [ops |-> <<>>, nextBlock |-> last'.end]
      ]_vars

\* the loop that has just been drained had two Breaks in its body
C4_Witness ==
    /\ last.op = "exitLoop"
    /\ Cardinality({k \in 1..Len(breakLog) : breakLog[k][2] = last.arg[1]}) = 2
    /\ \A k \in 1..Len(breakLog) :
          breakLog[k][2] = last.arg[1] =>
              blocks[breakLog[k][1]] = [ops |-> <<>>, nextBlock |-> last.end]

\* the exit block of loop marker m, None while the loop has not been drained
ExitOf(m) ==
    IF \E j \in 1..Len(exitLog) : exitLog[j][1] = m
    THEN exitLog[CHOOSE j \in 1..Len(exitLog) : exitLog[j][1] = m][2]
    ELSE None

\* C5: each loop's drain wires only the break blocks registered during that
\* loop's own body: once the loop that was current when a break block was
\* registered has been drained the block points to that loop's exit block,
\* and it never points to the exit block of any other loop, so no other
\* drain re-wires it.
C5_BreakWiring ==
    \A k \in 1..Len(breakLog) :
        /\ ExitOf(breakLog[k][2]) # None =>
              blocks[breakLog[k][1]].nextBlock = ExitOf(breakLog[k][2])
        /\ \A j \in 1..Len(exitLog) :
              exitLog[j][1] # breakLog[k][2] =>
                  blocks[breakLog[k][1]].nextBlock # exitLog[j][2]

\* an outer loop with two Breaks and a nested loop with one, both drained
C5_Witness ==
    /\ Len(exitLog) = 2
    /\ loopStack = <<>>
    /\ exitLog[1][1] = 2
    /\ exitLog[2][1] = 1
    /\ exitLog[1][2] # exitLog[2][2]
    /\ Cardinality({k \in 1..Len(breakLog) : breakLog[k][2] = 1}) = 2
    /\ Cardinality({k \in 1..Len(breakLog) : breakLog[k][2] = 2}) = 1
    /\ \A k \in 1..Len(breakLog) :
          blocks[breakLog[k][1]].nextBlock = exitLog[3 - breakLog[k][2]][2]

\* C6: constructing a ScratchLoad or ScratchStore with both a slot and an
\* index expression, or with neither, raises TealInternalError; with exactly
\* one of them the construction succeeds, so every load/store node has
\* exactly one of the two set.
C6_AddressingExclusivity ==
    /\ last.op \in {"ScratchLoad", "ScratchStore"} =>
          LET both == last.arg[1] # None /\ last.arg[2] # None
              neither == last.arg[1] = None /\ last.arg[2] = None
          IN /\ (both \/ neither) <=> last.err = "TealInternalError"
             /\ ~(both \/ neither) =>
                   /\ last.err = NoError
                   /\ last.start = Len(nodes)
                   /\ nodes[last.start].kind = last.op
                   /\ nodes[last.start].slot = last.arg[1]
                   /\ nodes[last.start].index_expression = last.arg[2]
    /\ \A n \in 1..Len(nodes) :
          nodes[n].kind \in {"ScratchLoad", "ScratchStore"} =>
              (nodes[n].slot = None) # (nodes[n].index_expression = None)

\* a ScratchStore given both a slot and an index expression was rejected
C6_Witness ==
    /\ last.op = "ScratchStore"
    /\ last.arg[1] # None
    /\ last.arg[2] # None
    /\ last.err = "TealInternalError"

\* C8: only a successful allocation without a requested id advances the
\* slot counter; a rejected allocation, a reserved allocation, a node
\* construction and the lowering of any node, whether it succeeds or raises,
\* leave the counter and the id and reserved flag of every existing slot
\* unchanged.
C8_CounterFrame ==
    [][/\ \A i \in 1..Len(slots) : i <= Len(slots') /\ slots'[i] = slots[i]
       /\ nextSlotId' # nextSlotId =>
             /\ last'.op = "ScratchSlot"
             /\ last'.arg = <<>>
             /\ last'.err = NoError
       /\ (last'.op = "ScratchSlot" /\ last'.err # NoError) => slots' = slots
       /\ last'.op = "lower" => (slots' = slots /\ nextSlotId' = nextSlotId)
      ]_vars

\* a ScratchStore lowering raised after an auto-assigned slot was allocated
C8_Witness ==
    /\ last.op = "lower"
    /\ nodes[last.arg[1]].kind = "ScratchStore"
    /\ last.err # NoError
    /\ nextSlotId = NUM_SLOTS + 1
    /\ Len(slots) = 1

\* the instructions of the blocks from b to end, following nextBlock
RECURSIVE FragmentOps(_, _, _)
FragmentOps(b, end, fuel) ==
    IF b = end THEN blocks[b].ops
    ELSE IF blocks[b].nextBlock = None \/ fuel = 0
         THEN blocks[b].ops \o <<TealOp(None, "end not reached", <<>>)>>
         ELSE blocks[b].ops \o FragmentOps(blocks[b].nextBlock, end, fuel - 1)

FirstAuto == CHOOSE i \in AutoRefs : \A j \in AutoRefs : i <= j

\* C9: the first auto-assigned slot s has id NUM_SLOTS, and lowering
\* Store(s, Load(s)) yields a linear fragment holding a load of slot
\* NUM_SLOTS followed by a store to slot NUM_SLOTS.
C9_StoreLoadScenario ==
    (/\ last.op = "lower"
     /\ AutoRefs # {}
     /\ nodes[last.arg[1]].kind = "ScratchStore"
     /\ nodes[last.arg[1]].index_expression = None
     /\ nodes[last.arg[1]].slot = FirstAuto
     /\ nodes[nodes[last.arg[1]].value].kind = "ScratchLoad"
     /\ nodes[nodes[last.arg[1]].value].index_expression = None
     /\ nodes[nodes[last.arg[1]].value].slot = FirstAuto) =>
        /\ slots[FirstAuto].id = NUM_SLOTS
        /\ last.err = NoError
        /\ LET ops == FragmentOps(last.start, last.end, Len(blocks)) IN
           /\ Len(ops) = 2
           /\ ops[1].op = "load"
           /\ Len(ops[1].args) = 1
           /\ slots[ops[1].args[1]].id = NUM_SLOTS
           /\ ops[2].op = "store"
           /\ Len(ops[2].args) = 1
           /\ slots[ops[2].args[1]].id = NUM_SLOTS
        /\ blocks[last.start].nextBlock = last.end
        /\ blocks[last.end].nextBlock = None

\* Store(s, Load(s)) on the first auto-assigned slot has just been lowered
C9_Witness ==
    /\ last.op = "lower"
    /\ last.err = NoError
    /\ AutoRefs # {}
    /\ nodes[last.arg[1]].kind = "ScratchStore"
    /\ nodes[last.arg[1]].slot = FirstAuto
    /\ nodes[nodes[last.arg[1]].value].kind = "ScratchLoad"
    /\ nodes[nodes[last.arg[1]].value].slot = FirstAuto

\* the instructions a node contributes, in evaluation order
RECURSIVE Code(_)
Code(n) ==
    LET e == nodes[n] IN
    CASE e.kind = "Break" -> <<>>
      [] e.kind = "ScratchIndex" -> <<TealOp(n, "int", <<e.slot>>)>>
      [] e.kind = "ScratchStackStore" -> <<TealOp(n, "store", <<e.slot>>)>>
      [] e.kind = "ScratchLoad" /\ e.index_expression # None ->
            Code(e.index_expression) \o <<TealOp(n, "loads", <<>>)>>
      [] e.kind = "ScratchLoad" /\ e.index_expression = None ->
            <<TealOp(n, "load", <<e.slot>>)>>
      [] e.kind = "ScratchStore" /\ e.index_expression # None ->
            Code(e.index_expression) \o Code(e.value)
                \o <<TealOp(n, "stores", <<>>)>>
      [] e.kind = "ScratchStore" /\ e.index_expression = None ->
            Code(e.value) \o <<TealOp(n, "store", <<e.slot>>)>>

\* C10: lowering a load or store chooses the addressing mode by the field
\* that is set: with an index expression it emits loads / stores after the
\* index's fragment and, for a store, after the value's fragment, the value
\* last; with only the slot it emits load / store on that slot after the
\* value's fragment (for a store), and raises TealInternalError when the
\* slot is not a ScratchSlot.
C10_AddressingMode ==
    (last.op = "lower" /\
     nodes[last.arg[1]].kind \in {"ScratchLoad", "ScratchStore"}) =>
        LET n == last.arg[1]
            e == nodes[n]
            store == e.kind = "ScratchStore"
            operand == IF store THEN Code(e.value) ELSE <<>>
        IN /\ (e.index_expression = None /\ ~IsScratchSlot(e.slot)) =>
                 last.err = "TealInternalError"
           /\ (~store /\ e.index_expression = None /\ IsScratchSlot(e.slot)) =>
                 last.err = NoError
           /\ last.err = NoError =>
                 FragmentOps(last.start, last.end, Len(blocks)) =
                    IF e.index_expression # None
                    THEN Code(e.index_expression) \o operand \o
                         <<TealOp(n, IF store THEN "stores" ELSE "loads", <<>>)>>
                    ELSE operand \o
                         <<TealOp(n, IF store THEN "store" ELSE "load",
                                  <<e.slot>>)>>

\* an indexed store whose index and value are different nodes was lowered
C10_Witness ==
    /\ last.op = "lower"
    /\ last.err = NoError
    /\ nodes[last.arg[1]].kind = "ScratchStore"
    /\ nodes[last.arg[1]].index_expression # None
    /\ nodes[last.arg[1]].index_expression # nodes[last.arg[1]].value
    /\ Len(FragmentOps(last.start, last.end, Len(blocks))) = 3
====
